---- MODULE Spec2Model ----
(***************************************************************************)
(* ptwrap: run a command in a pseudo-terminal (src/ptwrap.c).              *)
(*                                                                         *)
(* The parent process (main, lines 282-313) is modelled statement by       *)
(* statement through the program counter pc; the forked child (lines       *)
(* 314-320) through cpc.  The kernel objects the program talks to (the     *)
(* local terminal, the pty pair, the pending SIGWINCH, the wait status)    *)
(* are state variables; the result of every system call is drawn with \E.  *)
(***************************************************************************)
EXTENDS Integers, Sequences, FiniteSets, TLC

(* ------------------------------ bounds ------------------------------- *)
\* capacity of a channel buffer (BUFSIZ of <stdio.h>, scaled down)
BufSize == 2
\* number of bytes waiting on local input (then it ends, or stays silent)
MaxIn == 2
\* number of bytes the launched command writes to its terminal
MaxOut == 2
\* number of signals (SIGWINCH or other) the environment sends to the parent
MaxSignals == 1
\* what the environment does in one run: either the full traffic and no
\* signal, or the signals and one byte less in each direction
Budgets == { [in |-> MaxIn, out |-> MaxOut, sig |-> 0],
             [in |-> MaxIn - 1, out |-> MaxOut - 1, sig |-> MaxSignals] }

(* ------------------------- program constants ------------------------- *)
EXIT_FAILURE == 1
STDIN_FILENO == 0
STDOUT_FILENO == 1
STDERR_FILENO == 2

INACTIVE == "INACTIVE"
READING == "READING"
WRITING == "WRITING"

\* value of an object that has not been assigned yet
Uninit == -1
NoStatus == -1
NoPid == 0
ChildPid == 7

(* --------------------------- input domains --------------------------- *)
\* argv of the tool: argv[0] is the program name
ArgvSet == { <<>>, <<"ptwrap">>, <<"ptwrap", "--">>, <<"ptwrap", "cmd">>,
             <<"ptwrap", "--", "--">> }

\* which of the descriptors 0, 1, 2 are open when the tool starts
StdOpenSet == { {0, 1, 2}, {1, 2}, {0, 1} }
FdRange == 0..3

\* exit codes and terminating signals of the launched command
ExitCodes == {0, 3, 130}
TermSignals == {2, 9}

\* window geometries <<rows, columns>>
WinSizes == { <<24, 80>>, <<50, 132>> }
PtyInitSize == <<0, 0>>

\* terminal attributes: the flag names set in each field, and c_cc[VMIN], c_cc[VTIME]
Cooked == [c_iflag |-> {"ICRNL", "IXON", "IUTF8"}, c_oflag |-> {"OPOST", "ONLCR"},
           c_lflag |-> {"ECHO", "ICANON", "IEXTEN", "ISIG", "ECHOE"},
           vmin |-> 4, vtime |-> 0]
NoTermios == [c_iflag |-> {}, c_oflag |-> {}, c_lflag |-> {}, vmin |-> 0, vtime |-> 0]
TermiosSet == { Cooked }

(* ------------------------------ state -------------------------------- *)
VARIABLES
    \* parent process
    pc, argv, optind, open_fds, master_fd, slave_name, child_pid,
    noncanon, exit_status, exit_via, diag,
    \* signal bridge (lines 54-81)
    sigmask, mask_for_select, sa_handler, should_set_terminal_size,
    sig_pending, interrupted, sig_left,
    \* local terminal
    stdin_tty, termios, termios0, original_termios, restores, restore_ok,
    local_size,
    \* pseudo-terminal pair
    pty_open, pty_granted, pty_unlocked, pty_size, pty_out,
    slave_opened, other_holds, ctty,
    \* channels (lines 139-145) and the fd sets of one iteration
    incoming, outgoing, read_fds, write_fds,
    \* local input / output and the history of the forwarded bytes
    stdin_buf, stdin_eof,
    in_read, in_written, out_read, out_written,
    \* child process
    cpc, cfd, child_sigmask, child_leader, cmd_left, child_end, wait_status,
    child_diag,
    \* history of set_terminal_size since the local size last changed: number
    \* of calls (saturating at 2), whether a call propagated the size
    geom_calls, geom_ok, tiocgwinsz_ok, tiocswinsz_ok

parentVars == <<pc, argv, optind, open_fds, master_fd, slave_name, child_pid,
                noncanon, exit_status, exit_via, diag>>
sigVars == <<sigmask, mask_for_select, sa_handler, should_set_terminal_size,
             sig_pending, interrupted, sig_left>>
ttyVars == <<stdin_tty, termios, termios0, original_termios, restores,
             restore_ok, local_size>>
ptyVars == <<pty_open, pty_granted, pty_unlocked, pty_size, pty_out,
             slave_opened, other_holds, ctty>>
chanVars == <<incoming, outgoing, read_fds, write_fds>>
ioVars == <<stdin_buf, stdin_eof, in_read, in_written,
            out_read, out_written>>
childVars == <<cpc, cfd, child_sigmask, child_leader, cmd_left, child_end,
              wait_status, child_diag>>
geomVars == <<geom_calls, geom_ok, tiocgwinsz_ok, tiocswinsz_ok>>

vars == <<parentVars, sigVars, ttyVars, ptyVars, chanVars, ioVars, childVars,
          geomVars>>

exitVars == <<exit_status, exit_via, diag>>

(* ------------------------------ helpers ------------------------------ *)
Min(S) == CHOOSE x \in S : \A y \in S : x <= y

\* bit i of n
Bit(n, i) == (n \div (2 ^ i)) % 2

\* the C operator | on 8-bit operands
BitOr(a, b) ==
    LET or(i) == IF Bit(a, i) = 1 \/ Bit(b, i) = 1 THEN 2 ^ i ELSE 0
    IN  or(0) + or(1) + or(2) + or(3) + or(4) + or(5) + or(6) + or(7)

\* error_exit (lines 43-46): message on stderr, exit(EXIT_FAILURE)
error_exit(message) ==
    /\ pc' = "exited"
    /\ exit_status' = EXIT_FAILURE
    /\ exit_via' = "exit"
    /\ diag' = Append(diag, message)

\* errno_exit (lines 48-52): as error_exit, the message followed by strerror
errno_exit(message) ==
    /\ pc' = "exited"
    /\ exit_status' = EXIT_FAILURE
    /\ exit_via' = "exit"
    /\ diag' = Append(diag, message)

(* ------------------------------- Init -------------------------------- *)
Init ==
    /\ pc = "main"
    /\ argv \in ArgvSet
    /\ optind = 1
    /\ open_fds \in StdOpenSet
    /\ master_fd = Uninit
    /\ slave_name = ""
    /\ child_pid = NoPid
    /\ noncanon = FALSE
    /\ exit_status = NoStatus
    /\ exit_via = "none"
    /\ diag = <<>>
    /\ sigmask = {}
    /\ mask_for_select = {}
    /\ sa_handler = "SIG_DFL"
    /\ should_set_terminal_size = FALSE
    /\ sig_pending = FALSE
    /\ interrupted = FALSE
    /\ stdin_tty \in BOOLEAN
    /\ termios \in (IF stdin_tty THEN TermiosSet ELSE {NoTermios})
    /\ termios0 = termios
    /\ original_termios = NoTermios
    /\ restores = 0
    /\ restore_ok = FALSE
    /\ local_size = <<24, 80>>
    /\ pty_open = FALSE
    /\ pty_granted = FALSE
    /\ pty_unlocked = FALSE
    /\ pty_size = PtyInitSize
    /\ pty_out = <<>>
    /\ slave_opened = FALSE
    /\ other_holds = FALSE
    /\ ctty = "none"
    /\ incoming = [from_fd |-> Uninit, to_fd |-> Uninit, state |-> "UNSET",
                   buffer |-> <<>>, buffer_position |-> Uninit,
                   buffer_length |-> Uninit]
    /\ outgoing = incoming
    /\ read_fds = {}
    /\ write_fds = {}
    /\ \E b \in Budgets :
          /\ stdin_buf = [i \in 1 .. b.in |-> i]
          /\ cmd_left = b.out
          /\ sig_left = b.sig
    /\ stdin_eof = FALSE
    /\ in_read = <<>>
    /\ in_written = <<>>
    /\ out_read = <<>>
    /\ out_written = <<>>
    /\ cpc = "none"
    /\ cfd = [fd \in FdRange |-> "closed"]
    /\ child_sigmask = {}
    /\ child_leader = FALSE
    /\ child_end = "none"
    /\ wait_status = [kind |-> "none", val |-> 0]
    /\ child_diag = ""
    /\ geom_calls = 0
    /\ geom_ok = FALSE
    /\ tiocgwinsz_ok \in BOOLEAN
    /\ tiocswinsz_ok \in BOOLEAN

(* ---------------- window-size propagation (lines 83-90) -------------- *)
\* mutant of SizeAfter: the local size is added to the geometry of the pty
SizeAfter_Grows(getok, setok) ==
    IF getok /\ setok
    THEN <<pty_size[1] + local_size[1], pty_size[2] + local_size[2]>>
    ELSE pty_size

\* geometry of the pty after set_terminal_size, given the results of the
\* two ioctl calls: TIOCGWINSZ on local output, TIOCSWINSZ on the pty
SizeAfter(getok, setok) ==
    IF getok /\ setok THEN local_size ELSE pty_size

\* mutant of set_terminal_size: the flag is left as it is
set_terminal_size_KeepsFlag ==
    /\ should_set_terminal_size' = should_set_terminal_size
    /\ pty_size' = SizeAfter(tiocgwinsz_ok, tiocswinsz_ok)
    /\ geom_calls' = IF geom_calls < 2 THEN geom_calls + 1 ELSE 2
    /\ geom_ok' = (tiocgwinsz_ok /\ tiocswinsz_ok)
    /\ UNCHANGED <<tiocgwinsz_ok, tiocswinsz_ok>>

\* tiocgwinsz_ok: local output is a terminal that reports a size;
\* tiocswinsz_ok: the pty accepts a size.  Both are properties of the two
\* open files, which the parent keeps for its whole life.
set_terminal_size ==
    /\ should_set_terminal_size' = FALSE
    /\ pty_size' = SizeAfter(tiocgwinsz_ok, tiocswinsz_ok)
    /\ geom_calls' = IF geom_calls < 2 THEN geom_calls + 1 ELSE 2
    /\ geom_ok' = (tiocgwinsz_ok /\ tiocswinsz_ok)
    /\ UNCHANGED <<tiocgwinsz_ok, tiocswinsz_ok>>

(* ------------------------ parent: main, setup ------------------------ *)
\* mutant of OperandIndex: "--" is not skipped
OperandIndex_NoSkip(av) == 1

\* main, lines 283-296: argument check
OperandIndex(av) ==
    IF 1 < Len(av) /\ av[1 + 1] = "--" THEN 1 + 1 ELSE 1

Main ==
    /\ pc = "main"
    /\ IF Len(argv) <= 0
         THEN /\ pc' = "exited"
              /\ exit_status' = EXIT_FAILURE
              /\ exit_via' = "exit"
              /\ UNCHANGED <<optind, diag>>
         ELSE /\ optind' = OperandIndex(argv)
              /\ IF optind' = Len(argv)
                   THEN error_exit("operand missing")
                   ELSE pc' = "sigprocmask" /\ UNCHANGED exitVars
    /\ UNCHANGED <<argv, open_fds, master_fd, slave_name, child_pid, noncanon>>
    /\ UNCHANGED <<sigVars, ttyVars, ptyVars, chanVars, ioVars, childVars, geomVars>>

\* install_sigwinch_handler, lines 66-73: block SIGWINCH, prepare mask_for_select
SelectMask(oldmask) == oldmask \ {"SIGWINCH"}

\* mutant of BlockedMask: nothing is added to the mask
BlockedMask_Same(oldmask) == oldmask

\* line 70: the mask of the process after sigprocmask(SIG_BLOCK, {SIGWINCH})
BlockedMask(oldmask) == oldmask \cup {"SIGWINCH"}

BlockSigwinch ==
    /\ pc = "sigprocmask"
    /\ \E failed \in {"", "sigemptyset", "sigaddset", "sigprocmask", "sigdelset"} :
          /\ IF failed \in {"", "sigdelset"}
               THEN sigmask' = BlockedMask(sigmask)
               ELSE sigmask' = sigmask
          /\ mask_for_select' =
                 IF failed = "" THEN SelectMask(sigmask)
                 ELSE IF failed = "sigdelset" THEN sigmask
                 ELSE mask_for_select
          /\ IF failed = ""
               THEN pc' = "sigaction" /\ UNCHANGED exitVars
               ELSE errno_exit(failed)
    /\ UNCHANGED <<argv, optind, open_fds, master_fd, slave_name, child_pid, noncanon>>
    /\ UNCHANGED <<sa_handler, should_set_terminal_size, sig_pending, interrupted,
                   sig_left>>
    /\ UNCHANGED <<ttyVars, ptyVars, chanVars, ioVars, childVars, geomVars>>

\* install_sigwinch_handler, lines 76-79: set the handler
InstallHandler ==
    /\ pc = "sigaction"
    /\ \E ok \in BOOLEAN :
          IF ok
          THEN /\ sa_handler' = "receive_sigwinch"
               /\ pc' = "posix_openpt"
               /\ UNCHANGED exitVars
          ELSE /\ errno_exit("sigaction")
               /\ UNCHANGED sa_handler
    /\ UNCHANGED <<argv, optind, open_fds, master_fd, slave_name, child_pid, noncanon>>
    /\ UNCHANGED <<sigmask, mask_for_select, should_set_terminal_size, sig_pending,
                   interrupted, sig_left>>
    /\ UNCHANGED <<ttyVars, ptyVars, chanVars, ioVars, childVars, geomVars>>

\* prepare_master_pseudo_terminal, lines 93-97: posix_openpt returns the
\* lowest descriptor that is not open
LowestFree(fds) == Min(FdRange \ fds)

OpenMaster ==
    /\ pc = "posix_openpt"
    /\ \E ok \in BOOLEAN :
          IF ~ok
          THEN /\ errno_exit("cannot open master pseudo-terminal")
               /\ UNCHANGED <<master_fd, open_fds, pty_open>>
          ELSE /\ master_fd' = LowestFree(open_fds)
               /\ open_fds' = open_fds \cup {master_fd'}
               /\ pty_open' = TRUE
               /\ IF master_fd' <= STDERR_FILENO
                    THEN error_exit("stdin/stdout/stderr are not open")
                    ELSE pc' = "grantpt" /\ UNCHANGED exitVars
    /\ UNCHANGED <<argv, optind, slave_name, child_pid, noncanon>>
    /\ UNCHANGED <<pty_granted, pty_unlocked, pty_size, pty_out,
                   slave_opened, other_holds, ctty>>
    /\ UNCHANGED <<sigVars, ttyVars, chanVars, ioVars, childVars, geomVars>>

\* mutant of GrantPt: the master is not granted
GrantPt_Skipped ==
    /\ pc = "grantpt"
    /\ pc' = "unlockpt"
    /\ UNCHANGED <<argv, optind, open_fds, master_fd, slave_name, child_pid, noncanon,
                   exitVars>>
    /\ UNCHANGED <<sigVars, ttyVars, ptyVars, chanVars, ioVars, childVars, geomVars>>

\* lines 99-100
GrantPt ==
    /\ pc = "grantpt"
    /\ \E ok \in BOOLEAN :
          IF ok
          THEN pty_granted' = TRUE /\ pc' = "unlockpt" /\ UNCHANGED exitVars
          ELSE /\ errno_exit("pseudo-terminal permission not granted")
               /\ UNCHANGED pty_granted
    /\ UNCHANGED <<argv, optind, open_fds, master_fd, slave_name, child_pid, noncanon>>
    /\ UNCHANGED <<pty_open, pty_unlocked, pty_size, pty_out,
                   slave_opened, other_holds, ctty>>
    /\ UNCHANGED <<sigVars, ttyVars, chanVars, ioVars, childVars, geomVars>>

\* lines 101-102
UnlockPt ==
    /\ pc = "unlockpt"
    /\ \E ok \in BOOLEAN :
          IF ok
          THEN pty_unlocked' = TRUE /\ pc' = "set_terminal_size" /\ UNCHANGED exitVars
          ELSE /\ errno_exit("pseudo-terminal permission not unlocked")
               /\ UNCHANGED pty_unlocked
    /\ UNCHANGED <<argv, optind, open_fds, master_fd, slave_name, child_pid, noncanon>>
    /\ UNCHANGED <<pty_open, pty_granted, pty_size, pty_out,
                   slave_opened, other_holds, ctty>>
    /\ UNCHANGED <<sigVars, ttyVars, chanVars, ioVars, childVars, geomVars>>

\* line 104
InitialSize ==
    /\ pc = "set_terminal_size"
    /\ set_terminal_size
    /\ pc' = "ptsname"
    /\ UNCHANGED <<argv, optind, open_fds, master_fd, slave_name, child_pid, noncanon,
                   exitVars>>
    /\ UNCHANGED <<sigmask, mask_for_select, sa_handler, sig_pending, interrupted,
                   sig_left>>
    /\ UNCHANGED <<pty_open, pty_granted, pty_unlocked, pty_out,
                   slave_opened, other_holds, ctty>>
    /\ UNCHANGED <<ttyVars, chanVars, ioVars, childVars>>

\* slave_pseudo_terminal_name, lines 109-115
SlaveName ==
    /\ pc = "ptsname"
    /\ \E ok \in BOOLEAN :
          IF ok
          THEN slave_name' = "/dev/pts/0" /\ pc' = "fork" /\ UNCHANGED exitVars
          ELSE /\ errno_exit("cannot name slave pseudo-terminal")
               /\ UNCHANGED slave_name
    /\ UNCHANGED <<argv, optind, open_fds, master_fd, child_pid, noncanon>>
    /\ UNCHANGED <<sigVars, ttyVars, ptyVars, chanVars, ioVars, childVars, geomVars>>

\* main, lines 303-306 and 314: fork; the child starts with a copy of the
\* parent's descriptors and signal mask
ChildFds(fds, mfd) ==
    [fd \in FdRange |->
        IF fd = mfd THEN "master"
        ELSE IF fd \notin fds THEN "closed"
        ELSE IF fd = STDIN_FILENO THEN "stdin"
        ELSE IF fd = STDOUT_FILENO THEN "stdout"
        ELSE "stderr"]

Fork ==
    /\ pc = "fork"
    /\ \E ok \in BOOLEAN :
          IF ok
          THEN /\ child_pid' = ChildPid
               /\ cpc' = "close_master"
               /\ cfd' = ChildFds(open_fds, master_fd)
               /\ child_sigmask' = sigmask
               /\ pc' = "disable_canonical_io"
               /\ UNCHANGED exitVars
          ELSE /\ errno_exit("cannot spawn child process")
               /\ UNCHANGED <<child_pid, cpc, cfd, child_sigmask>>
    /\ UNCHANGED <<argv, optind, open_fds, master_fd, slave_name, noncanon>>
    /\ UNCHANGED <<child_leader, cmd_left, child_end, wait_status, child_diag>>
    /\ UNCHANGED <<sigVars, ttyVars, ptyVars, chanVars, ioVars, geomVars>>

(* --------------------- raw mode (lines 117-137) ---------------------- *)
setupVars == <<argv, optind, open_fds, master_fd, slave_name, child_pid>>

\* the attributes disable_canonical_io asks for, lines 123-129
RawOf(t) ==
    [c_iflag |-> t.c_iflag \ {"BRKINT", "ICRNL", "IGNBRK", "IGNCR", "INLCR",
                              "IXON", "IXOFF", "PARMRK"},
     c_oflag |-> t.c_oflag \ {"OPOST"},
     c_lflag |-> t.c_lflag \ {"ECHO", "ICANON", "IEXTEN", "ISIG"},
     vmin |-> 1,
     vtime |-> 0]

\* main line 308, disable_canonical_io lines 119-131: tcgetattr fails when
\* local input is not a terminal; tcsetattr may fail and then changes nothing
DisableCanonicalIo ==
    /\ pc = "disable_canonical_io"
    /\ IF ~stdin_tty
         THEN noncanon' = FALSE /\ UNCHANGED <<original_termios, termios>>
         ELSE /\ original_termios' = termios
              /\ \E ok \in BOOLEAN :
                    /\ termios' = IF ok THEN RawOf(original_termios') ELSE termios
                    /\ noncanon' = ok
    /\ pc' = "forward_all_io"
    /\ UNCHANGED <<setupVars, exitVars>>
    /\ UNCHANGED <<stdin_tty, termios0, restores, restore_ok, local_size>>
    /\ UNCHANGED <<sigVars, ptyVars, chanVars, ioVars, childVars, geomVars>>

\* mutant of Restored: nothing is written back
Restored_Nothing(saved, current, ok) == current

\* enable_canonical_io, line 134: the attributes of the terminal after
\* tcsetattr(STDIN_FILENO, TCSADRAIN, &original_termios) succeeded (ok) or failed
Restored(saved, current, ok) == IF ok THEN saved ELSE current

\* main lines 311-312, enable_canonical_io lines 133-137: the result of
\* tcsetattr is ignored
EnableCanonicalIo ==
    /\ pc = "enable_canonical_io"
    /\ IF noncanon
         THEN \E ok \in BOOLEAN :
                /\ termios' = Restored(original_termios, termios, ok)
                /\ restores' = restores + 1
                /\ restore_ok' = ok
         ELSE UNCHANGED <<termios, restores, restore_ok>>
    /\ pc' = "return"
    /\ UNCHANGED <<setupVars, noncanon, exitVars>>
    /\ UNCHANGED <<stdin_tty, termios0, original_termios, local_size>>
    /\ UNCHANGED <<sigVars, ptyVars, chanVars, ioVars, childVars, geomVars>>

\* main line 313: return exit_status
Return ==
    /\ pc = "return"
    /\ pc' = "exited"
    /\ exit_via' = "return"
    /\ UNCHANGED <<setupVars, noncanon, exit_status, diag>>
    /\ UNCHANGED <<sigVars, ttyVars, ptyVars, chanVars, ioVars, childVars, geomVars>>

(* ------------------ forwarding engine (lines 139-228) ---------------- *)
\* the handles of the slave that are open in the child
SlaveFds == {fd \in FdRange : cfd[fd] = "slave"}

\* the master reports a hang-up when the slave has been opened and every
\* handle on it is closed again
HangUp == slave_opened /\ SlaveFds = {} /\ ~other_holds

Readable(fd) ==
    IF fd = STDIN_FILENO THEN stdin_buf # <<>> \/ stdin_eof
    ELSE IF fd = master_fd THEN pty_out # <<>> \/ HangUp
    ELSE FALSE

Writable(fd) == fd = master_fd \/ fd = STDOUT_FILENO

\* mutant of ReadInterest: only a Writing channel is left out of the read set
ReadInterest_NotWriting(channel) ==
    IF channel.state = WRITING THEN {} ELSE {channel.from_fd}

\* mutant of WriteInterest: a Writing channel registers its source handle
WriteInterest_Source(channel) ==
    IF channel.state = WRITING THEN {channel.from_fd} ELSE {}

\* set_fd_set, lines 147-154
ReadInterest(channel) ==
    IF channel.state = READING THEN {channel.from_fd} ELSE {}

WriteInterest(channel) ==
    IF channel.state = WRITING THEN {channel.to_fd} ELSE {}

\* mutant of AfterRead: only an error ends the channel, a read of 0 bytes
\* is taken as data
AfterRead_ZeroIsData(channel, size, data) ==
    IF size < 0
    THEN [channel EXCEPT !.buffer_position = 0, !.state = INACTIVE]
    ELSE [channel EXCEPT !.buffer_position = 0, !.state = WRITING,
                         !.buffer = data, !.buffer_length = size]

\* process_buffer, READING, lines 165-172: the channel after read returned
\* size, with data the bytes read
AfterRead(channel, size, data) ==
    IF size <= 0
    THEN [channel EXCEPT !.buffer_position = 0, !.state = INACTIVE]
    ELSE [channel EXCEPT !.buffer_position = 0, !.state = WRITING,
                         !.buffer = data, !.buffer_length = size]

\* process_buffer, WRITING, lines 178-180: the bytes offered to write
Offered(channel) ==
    SubSeq(channel.buffer, channel.buffer_position + 1, channel.buffer_length)

\* mutants of AfterWrite: a partial write ends the Writing state; the
\* offset does not advance after a partial write
AfterWrite_DropsRest(channel, size) ==
    IF size < 0
    THEN channel
    ELSE [channel EXCEPT !.buffer_position = channel.buffer_position + size,
                         !.state = READING]

\* mutant of AfterWrite: a failed write ends the channel
AfterWrite_FailEnds(channel, size) ==
    IF size < 0
    THEN [channel EXCEPT !.state = INACTIVE]
    ELSE LET position == channel.buffer_position + size
         IN  [channel EXCEPT !.buffer_position = position,
                             !.state = IF position = channel.buffer_length
                                       THEN READING ELSE WRITING]

AfterWrite_NoAdvance(channel, size) ==
    IF size < 0
    THEN channel
    ELSE IF channel.buffer_position + size = channel.buffer_length
    THEN [channel EXCEPT !.buffer_position = channel.buffer_length, !.state = READING]
    ELSE channel

\* process_buffer, WRITING, lines 181-185: the channel after write returned size
AfterWrite(channel, size) ==
    IF size < 0
    THEN channel
    ELSE LET position == channel.buffer_position + size
         IN  [channel EXCEPT !.buffer_position = position,
                             !.state = IF position = channel.buffer_length
                                       THEN READING ELSE WRITING]

\* what read can return on a descriptor that select reported readable: the
\* source (the bytes waiting) and the sizes
Source(fd) == IF fd = STDIN_FILENO THEN stdin_buf ELSE pty_out

ReadSizes(fd) ==
    IF Source(fd) # <<>>
    THEN (1 .. (IF Len(Source(fd)) < BufSize THEN Len(Source(fd)) ELSE BufSize))
         \cup (IF fd = STDIN_FILENO THEN {-1} ELSE {})
    ELSE {0, -1}

Take(q, n) == IF n <= 0 THEN <<>> ELSE SubSeq(q, 1, n)
Drop(q, n) == IF n <= 0 THEN q ELSE SubSeq(q, n + 1, Len(q))

\* forward_all_io, lines 191-196
ForwardAllIo ==
    /\ pc = "forward_all_io"
    /\ incoming' = [incoming EXCEPT !.from_fd = STDIN_FILENO, !.to_fd = master_fd,
                                    !.state = READING]
    /\ outgoing' = [outgoing EXCEPT !.from_fd = master_fd, !.to_fd = STDOUT_FILENO,
                                    !.state = READING]
    /\ pc' = "loop"
    /\ UNCHANGED <<setupVars, noncanon, exitVars, read_fds, write_fds>>
    /\ UNCHANGED <<sigVars, ttyVars, ptyVars, ioVars, childVars, geomVars>>

\* mutant of LoopCondition: the condition that line 207 comments out
LoopCondition_Both(inc, out) == inc.state # INACTIVE \/ out.state # INACTIVE

\* forward_all_io, line 207: the loop condition
LoopCondition(inc, out) == out.state # INACTIVE

\* forward_all_io, lines 207-213: test the condition, fill the fd sets
LoopTop ==
    /\ pc = "loop"
    /\ IF LoopCondition(incoming, outgoing)
         THEN /\ read_fds' = ReadInterest(incoming) \cup ReadInterest(outgoing)
              /\ write_fds' = WriteInterest(incoming) \cup WriteInterest(outgoing)
              /\ pc' = "pselect"
         ELSE /\ pc' = "await_child"
              /\ UNCHANGED <<read_fds, write_fds>>
    /\ UNCHANGED <<setupVars, noncanon, exitVars, incoming, outgoing>>
    /\ UNCHANGED <<sigVars, ttyVars, ptyVars, ioVars, childVars, geomVars>>

\* pselect, lines 214-215, returns the descriptors that are ready
PselectReady ==
    /\ pc = "pselect"
    /\ ~interrupted
    /\ read_fds' = {fd \in read_fds : Readable(fd)}
    /\ write_fds' = {fd \in write_fds : Writable(fd)}
    /\ read_fds' \cup write_fds' # {}
    /\ pc' = "process_incoming"
    /\ UNCHANGED <<setupVars, noncanon, exitVars, incoming, outgoing>>
    /\ UNCHANGED <<sigVars, ttyVars, ptyVars, ioVars, childVars, geomVars>>

\* pselect fails with EINTR, lines 214-216, after receive_sigwinch ran
PselectInterrupted ==
    /\ pc = "pselect"
    /\ interrupted
    /\ interrupted' = FALSE
    /\ pc' = "eintr"
    /\ read_fds' = {}
    /\ write_fds' = {}
    /\ UNCHANGED <<setupVars, noncanon, exitVars, incoming, outgoing>>
    /\ UNCHANGED <<sigmask, mask_for_select, sa_handler, should_set_terminal_size,
                   sig_pending, sig_left>>
    /\ UNCHANGED <<ttyVars, ptyVars, ioVars, childVars, geomVars>>

\* pselect fails with EINTR, lines 214-216, on a signal other than SIGWINCH
PselectOtherSignal ==
    /\ pc = "pselect"
    /\ ~interrupted
    /\ sig_left > 0
    /\ sig_left' = sig_left - 1
    /\ pc' = "eintr"
    /\ read_fds' = {}
    /\ write_fds' = {}
    /\ UNCHANGED <<setupVars, noncanon, exitVars, incoming, outgoing>>
    /\ UNCHANGED <<sigmask, mask_for_select, sa_handler, should_set_terminal_size,
                   sig_pending, interrupted>>
    /\ UNCHANGED <<ttyVars, ptyVars, ioVars, childVars, geomVars>>

\* pselect fails with another error, lines 216-218
PselectFails ==
    /\ pc = "pselect"
    /\ ~interrupted
    /\ errno_exit("cannot find file descriptor to forward")
    /\ UNCHANGED <<setupVars, noncanon>>
    /\ UNCHANGED <<sigVars, ttyVars, ptyVars, chanVars, ioVars, childVars, geomVars>>

\* lines 219-221
AfterInterrupt ==
    /\ pc = "eintr"
    /\ IF should_set_terminal_size
         THEN set_terminal_size
         ELSE UNCHANGED <<should_set_terminal_size, pty_size, geomVars>>
    /\ pc' = "loop"
    /\ UNCHANGED <<setupVars, noncanon, exitVars>>
    /\ UNCHANGED <<sigmask, mask_for_select, sa_handler, sig_pending, interrupted,
                   sig_left>>
    /\ UNCHANGED <<pty_open, pty_granted, pty_unlocked, pty_out,
                   slave_opened, other_holds, ctty>>
    /\ UNCHANGED <<ttyVars, chanVars, ioVars, childVars>>

\* line 225: process_buffer(&incoming, ...), local input -> pty master
ProcessIncoming ==
    /\ pc = "process_incoming"
    /\ pc' = "process_outgoing"
    /\ IF incoming.state = READING /\ incoming.from_fd \in read_fds
         THEN \E size \in ReadSizes(incoming.from_fd) :
                /\ incoming' = AfterRead(incoming, size, Take(stdin_buf, size))
                /\ stdin_buf' = Drop(stdin_buf, size)
                /\ in_read' = in_read \o Take(stdin_buf, size)
                /\ UNCHANGED in_written
         ELSE IF incoming.state = WRITING /\ incoming.to_fd \in write_fds
         THEN \E size \in -1 .. Len(Offered(incoming)) :
                /\ incoming' = AfterWrite(incoming, size)
                /\ in_written' = in_written \o Take(Offered(incoming), size)
                /\ UNCHANGED <<stdin_buf, in_read>>
         ELSE UNCHANGED <<incoming, stdin_buf, in_read, in_written>>
    /\ UNCHANGED <<setupVars, noncanon, exitVars, outgoing, read_fds, write_fds>>
    /\ UNCHANGED <<stdin_eof, out_read, out_written>>
    /\ UNCHANGED <<sigVars, ttyVars, ptyVars, childVars, geomVars>>

\* No descriptor of the parent has O_NONBLOCK set (the master is opened with
\* O_RDWR | O_NOCTTY at line 93, local input and output are used as they
\* are inherited).  pselect reports a destination writable when it accepts
\* some bytes; a write of more bytes than it accepts does not return until
\* the rest is accepted too.  That can happen when more than one byte is
\* offered.
WriteCanBlock(channel, ready) ==
    /\ channel.state = WRITING
    /\ channel.to_fd \in ready
    /\ Len(Offered(channel)) > 1

\* what a write that blocked returns: everything it was given, or an error
BlockedWriteSizes(channel) == {-1, Len(Offered(channel))}

\* lines 225, 178-180: the write of the inbound channel to the master blocks
IncomingWriteBlocks ==
    /\ pc = "process_incoming"
    /\ WriteCanBlock(incoming, write_fds)
    /\ pc' = "write_incoming"
    /\ UNCHANGED <<setupVars, noncanon, exitVars>>
    /\ UNCHANGED <<sigVars, ttyVars, ptyVars, chanVars, ioVars, childVars, geomVars>>

\* lines 178-186: the blocked write returns
IncomingWriteReturns ==
    /\ pc = "write_incoming"
    /\ pc' = "process_outgoing"
    /\ \E size \in BlockedWriteSizes(incoming) :
          /\ incoming' = AfterWrite(incoming, size)
          /\ in_written' = in_written \o Take(Offered(incoming), size)
    /\ UNCHANGED <<setupVars, noncanon, exitVars, outgoing, read_fds, write_fds>>
    /\ UNCHANGED <<stdin_buf, stdin_eof, in_read, out_read, out_written>>
    /\ UNCHANGED <<sigVars, ttyVars, ptyVars, childVars, geomVars>>

\* lines 226, 178-180: the write of the outbound channel to local output blocks
OutgoingWriteBlocks ==
    /\ pc = "process_outgoing"
    /\ WriteCanBlock(outgoing, write_fds)
    /\ pc' = "write_outgoing"
    /\ UNCHANGED <<setupVars, noncanon, exitVars>>
    /\ UNCHANGED <<sigVars, ttyVars, ptyVars, chanVars, ioVars, childVars, geomVars>>

\* lines 178-186: the blocked write returns; end of the iteration
OutgoingWriteReturns ==
    /\ pc = "write_outgoing"
    /\ pc' = "loop"
    /\ \E size \in BlockedWriteSizes(outgoing) :
          /\ outgoing' = AfterWrite(outgoing, size)
          /\ out_written' = out_written \o Take(Offered(outgoing), size)
    /\ read_fds' = {}
    /\ write_fds' = {}
    /\ UNCHANGED <<setupVars, noncanon, exitVars, incoming>>
    /\ UNCHANGED <<stdin_buf, stdin_eof, in_read, in_written, out_read>>
    /\ UNCHANGED <<sigVars, ttyVars, ptyVars, childVars, geomVars>>

\* line 226: process_buffer(&outgoing, ...), pty master -> local output; the
\* fd sets go out of scope at the end of the iteration
ProcessOutgoing ==
    /\ pc = "process_outgoing"
    /\ pc' = "loop"
    /\ IF outgoing.state = READING /\ outgoing.from_fd \in read_fds
         THEN \E size \in ReadSizes(outgoing.from_fd) :
                /\ outgoing' = AfterRead(outgoing, size, Take(pty_out, size))
                /\ pty_out' = Drop(pty_out, size)
                /\ out_read' = out_read \o Take(pty_out, size)
                /\ UNCHANGED out_written
         ELSE IF outgoing.state = WRITING /\ outgoing.to_fd \in write_fds
         THEN \E size \in -1 .. Len(Offered(outgoing)) :
                /\ outgoing' = AfterWrite(outgoing, size)
                /\ out_written' = out_written \o Take(Offered(outgoing), size)
                /\ UNCHANGED <<pty_out, out_read>>
         ELSE UNCHANGED <<outgoing, pty_out, out_read, out_written>>
    /\ read_fds' = {}
    /\ write_fds' = {}
    /\ UNCHANGED <<setupVars, noncanon, exitVars, incoming>>
    /\ UNCHANGED <<stdin_buf, stdin_eof, in_read, in_written>>
    /\ UNCHANGED <<pty_open, pty_granted, pty_unlocked, pty_size,
                   slave_opened, other_holds, ctty>>
    /\ UNCHANGED <<sigVars, ttyVars, childVars, geomVars>>

(* ------------------ child supervisor (lines 230-240) ----------------- *)
Exited(code) == [kind |-> "exited", val |-> code]
Signaled(sig) == [kind |-> "signaled", val |-> sig]

\* the wait statuses waitpid can report for a child that ended by
\* exit(EXIT_FAILURE) before the command ran ("failed") or as the command,
\* which exits or is killed ("command"); nothing observes the status
\* before waitpid, which draws it
WaitStatuses(how) ==
    IF how = "failed" THEN {Exited(EXIT_FAILURE)}
    ELSE {Exited(code) : code \in ExitCodes} \cup {Signaled(sig) : sig \in TermSignals}

\* mutants of AwaitStatus: the high bit is not set; another bit is set
AwaitStatus_NoHighBit(ws) ==
    IF ws.kind = "exited" THEN ws.val
    ELSE IF ws.kind = "signaled" THEN ws.val
    ELSE EXIT_FAILURE

AwaitStatus_Bit6(ws) ==
    IF ws.kind = "exited" THEN ws.val
    ELSE IF ws.kind = "signaled" THEN BitOr(ws.val, 64)
    ELSE EXIT_FAILURE

\* await_child, lines 235-239: the exit status for a wait status
AwaitStatus(ws) ==
    IF ws.kind = "exited" THEN ws.val
    ELSE IF ws.kind = "signaled" THEN BitOr(ws.val, 128)
    ELSE EXIT_FAILURE

\* main line 310, await_child lines 232, 235-239: waitpid returns once the
\* child has terminated
AwaitChild ==
    /\ pc = "await_child"
    /\ cpc = "zombie"
    /\ cpc' = "reaped"
    /\ wait_status' \in WaitStatuses(child_end)
    /\ exit_status' = AwaitStatus(wait_status')
    /\ pc' = "enable_canonical_io"
    /\ UNCHANGED <<setupVars, noncanon, exit_via, diag>>
    /\ UNCHANGED <<cfd, child_sigmask, child_leader, cmd_left, child_end, child_diag>>
    /\ UNCHANGED <<sigVars, ttyVars, ptyVars, chanVars, ioVars, geomVars>>

\* await_child lines 232-234: waitpid fails
AwaitChildFails ==
    /\ pc = "await_child"
    /\ errno_exit("cannot await child process")
    /\ UNCHANGED <<setupVars, noncanon>>
    /\ UNCHANGED <<sigVars, ttyVars, ptyVars, chanVars, ioVars, childVars, geomVars>>

(* ------------------- signal bridge (lines 54-59) --------------------- *)
\* the model follows the run until the parent process exits
Running == pc # "exited"

\* mutant of EffectiveMask: the mask of the wait is in force everywhere
EffectiveMask_OfSelect == mask_for_select

\* the signal mask in force: pselect installs mask_for_select while it waits
EffectiveMask == IF pc = "pselect" THEN mask_for_select ELSE sigmask

\* the terminal is resized, or SIGWINCH is sent for another reason
Sigwinch ==
    /\ Running
    /\ sig_left > 0
    /\ sig_left' = sig_left - 1
    /\ sig_pending' = TRUE
    /\ \E size \in WinSizes :
          /\ local_size' = size
          /\ IF size = local_size
               THEN UNCHANGED geomVars
               ELSE /\ geom_calls' = 0
                    /\ geom_ok' = FALSE
                    /\ UNCHANGED <<tiocgwinsz_ok, tiocswinsz_ok>>
    /\ UNCHANGED <<sigmask, mask_for_select, sa_handler, should_set_terminal_size,
                   interrupted>>
    /\ UNCHANGED <<stdin_tty, termios, termios0, original_termios, restores,
                   restore_ok>>
    /\ UNCHANGED <<parentVars, ptyVars, chanVars, ioVars, childVars>>

\* receive_sigwinch, lines 57-59, runs when SIGWINCH is pending and not blocked
ReceiveSigwinch ==
    /\ Running
    /\ sig_pending
    /\ "SIGWINCH" \notin EffectiveMask
    /\ sa_handler = "receive_sigwinch"
    /\ sig_pending' = FALSE
    /\ should_set_terminal_size' = TRUE
    /\ interrupted' = (pc = "pselect")
    /\ UNCHANGED <<sigmask, mask_for_select, sa_handler, sig_left>>
    /\ UNCHANGED <<parentVars, ttyVars, ptyVars, chanVars, ioVars, childVars, geomVars>>

\* the default action of SIGWINCH is to ignore the signal
IgnoreSigwinch ==
    /\ Running
    /\ sig_pending
    /\ "SIGWINCH" \notin EffectiveMask
    /\ sa_handler = "SIG_DFL"
    /\ sig_pending' = FALSE
    /\ UNCHANGED <<sigmask, mask_for_select, sa_handler, should_set_terminal_size,
                   interrupted, sig_left>>
    /\ UNCHANGED <<parentVars, ttyVars, ptyVars, chanVars, ioVars, childVars, geomVars>>

(* ----------------------- child (lines 242-280, 314-320) -------------- *)
\* termination of the child process: every descriptor is closed and the
\* parent can wait for it
ChildExit(how) ==
    /\ cpc' = "zombie"
    /\ child_end' = how
    /\ cmd_left' = 0
    /\ cfd' = [fd \in FdRange |-> "closed"]

\* error_exit / errno_exit in the child: the message goes to whatever
\* descriptor 2 is; when that is the slave it is output of the pty (written
\* as byte 0) and child_diag keeps its text
ChildErrorExit(message) ==
    /\ child_diag' = IF cfd[STDERR_FILENO] = "slave" THEN message ELSE child_diag
    /\ pty_out' = IF cfd[STDERR_FILENO] = "slave" THEN Append(pty_out, 0) ELSE pty_out
    /\ ChildExit("failed")

\* main line 316: close(master_fd), result ignored
ChildCloseMaster ==
    /\ Running
    /\ cpc = "close_master"
    /\ \E ok \in BOOLEAN :
          cfd' = IF ok THEN [cfd EXCEPT ![master_fd] = "closed"] ELSE cfd
    /\ cpc' = "setsid"
    /\ UNCHANGED <<child_sigmask, child_leader, cmd_left, child_end, wait_status,
                   child_diag>>
    /\ UNCHANGED <<parentVars, sigVars, ttyVars, ptyVars, chanVars, ioVars, geomVars>>

\* mutant of ChildSetsid: the result of setsid is not checked
ChildSetsid_Unchecked ==
    /\ Running
    /\ cpc = "setsid"
    /\ \E ok \in BOOLEAN : child_leader' = ok
    /\ cpc' = "open_stdin"
    /\ UNCHANGED <<cfd, cmd_left, child_end, child_diag, pty_out>>
    /\ UNCHANGED <<child_sigmask, wait_status>>
    /\ UNCHANGED <<pty_open, pty_granted, pty_unlocked, pty_size,
                   slave_opened, other_holds, ctty>>
    /\ UNCHANGED <<parentVars, sigVars, ttyVars, chanVars, ioVars, geomVars>>

\* become_session_leader, lines 242-245
ChildSetsid ==
    /\ Running
    /\ cpc = "setsid"
    /\ \E ok \in BOOLEAN :
          IF ok
          THEN /\ child_leader' = TRUE
               /\ cpc' = "open_stdin"
               /\ UNCHANGED <<cfd, cmd_left, child_end, child_diag, pty_out>>
          ELSE /\ ChildErrorExit("cannot create new session")
               /\ UNCHANGED child_leader
    /\ UNCHANGED <<child_sigmask, wait_status>>
    /\ UNCHANGED <<pty_open, pty_granted, pty_unlocked, pty_size,
                   slave_opened, other_holds, ctty>>
    /\ UNCHANGED <<parentVars, sigVars, ttyVars, chanVars, ioVars, geomVars>>

\* prepare_slave_pseudo_terminal_fds, lines 248-252: the open gives the
\* session leader the slave as controlling terminal unless it is taken
ChildOpenStdin ==
    /\ Running
    /\ cpc = "open_stdin"
    /\ \E r \in {"ok", "close", "open"} :
          IF r = "ok"
          THEN /\ cfd' = [cfd EXCEPT ![STDIN_FILENO] = "slave"]
               /\ slave_opened' = TRUE
               /\ ctty' = IF ctty = "none" /\ child_leader THEN "child" ELSE ctty
               /\ cpc' = "dup_stdout"
               /\ UNCHANGED <<cmd_left, child_end, child_diag, pty_out>>
          ELSE /\ ChildErrorExit(IF r = "close" THEN "cannot close old stdin"
                                 ELSE "cannot open slave pseudo-terminal at stdin")
               /\ UNCHANGED <<slave_opened, ctty>>
    /\ UNCHANGED <<child_sigmask, child_leader, wait_status>>
    /\ UNCHANGED <<pty_open, pty_granted, pty_unlocked, pty_size, other_holds>>
    /\ UNCHANGED <<parentVars, sigVars, ttyVars, chanVars, ioVars, geomVars>>

\* lines 254-257
ChildDupStdout ==
    /\ Running
    /\ cpc = "dup_stdout"
    /\ \E r \in {"ok", "close", "dup"} :
          IF r = "ok"
          THEN /\ cfd' = [cfd EXCEPT ![STDOUT_FILENO] = "slave"]
               /\ cpc' = "dup_stderr"
               /\ UNCHANGED <<cmd_left, child_end, child_diag, pty_out>>
          ELSE ChildErrorExit(IF r = "close" THEN "cannot close old stdout"
                              ELSE "cannot open slave pseudo-terminal at stdout")
    /\ UNCHANGED <<child_sigmask, child_leader, wait_status>>
    /\ UNCHANGED <<pty_open, pty_granted, pty_unlocked, pty_size,
                   slave_opened, other_holds, ctty>>
    /\ UNCHANGED <<parentVars, sigVars, ttyVars, chanVars, ioVars, geomVars>>

\* lines 259-262: when dup fails descriptor 2 is already closed
ChildDupStderr ==
    /\ Running
    /\ cpc = "dup_stderr"
    /\ \E r \in {"ok", "close", "dup"} :
          IF r = "ok"
          THEN /\ cfd' = [cfd EXCEPT ![STDERR_FILENO] = "slave"]
               /\ cpc' = "tcgetpgrp"
               /\ UNCHANGED <<cmd_left, child_end, child_diag, pty_out>>
          ELSE /\ ChildExit("failed")
               /\ UNCHANGED <<child_diag, pty_out>>
    /\ UNCHANGED <<child_sigmask, child_leader, wait_status>>
    /\ UNCHANGED <<pty_open, pty_granted, pty_unlocked, pty_size,
                   slave_opened, other_holds, ctty>>
    /\ UNCHANGED <<parentVars, sigVars, ttyVars, chanVars, ioVars, geomVars>>

\* mutant of HasControllingTerminal: the check of lines 272-274 is missing
HasControllingTerminal_Unchecked(owner) == TRUE

\* lines 272-274: tcgetpgrp(slave_fd) is the child's process group exactly
\* when the slave is the child's controlling terminal
HasControllingTerminal(owner) == owner = "child"

ChildCheckTerminal ==
    /\ Running
    /\ cpc = "tcgetpgrp"
    /\ IF HasControllingTerminal(ctty)
         THEN /\ cpc' = "execvp"
              /\ UNCHANGED <<cfd, cmd_left, child_end, child_diag, pty_out>>
         ELSE ChildErrorExit("cannot become controlling process of slave pseudo-terminal")
    /\ UNCHANGED <<child_sigmask, child_leader, wait_status>>
    /\ UNCHANGED <<pty_open, pty_granted, pty_unlocked, pty_size,
                   slave_opened, other_holds, ctty>>
    /\ UNCHANGED <<parentVars, sigVars, ttyVars, chanVars, ioVars, geomVars>>

\* exec_command, lines 277-280
ChildExec ==
    /\ Running
    /\ cpc = "execvp"
    /\ \E ok \in BOOLEAN :
          IF ok
          THEN /\ cpc' = "command"
               /\ UNCHANGED <<cfd, cmd_left, child_end, child_diag, pty_out>>
          ELSE ChildErrorExit(argv[optind + 1])
    /\ UNCHANGED <<child_sigmask, child_leader, wait_status>>
    /\ UNCHANGED <<pty_open, pty_granted, pty_unlocked, pty_size,
                   slave_opened, other_holds, ctty>>
    /\ UNCHANGED <<parentVars, sigVars, ttyVars, chanVars, ioVars, geomVars>>

(* ---------------- the launched command and the environment ----------- *)
\* the command writes its next byte to its terminal (the bytes are numbered
\* downwards, so each is different)
CommandWrite ==
    /\ Running
    /\ cpc = "command"
    /\ cmd_left > 0
    /\ cfd[STDOUT_FILENO] = "slave"
    /\ pty_out' = Append(pty_out, cmd_left)
    /\ cmd_left' = cmd_left - 1
    /\ UNCHANGED <<cpc, cfd, child_sigmask, child_leader, child_end, wait_status,
                   child_diag>>
    /\ UNCHANGED <<pty_open, pty_granted, pty_unlocked, pty_size,
                   slave_opened, other_holds, ctty>>
    /\ UNCHANGED <<parentVars, sigVars, ttyVars, chanVars, ioVars, geomVars>>

\* the command exits or is killed by a signal
CommandEnds ==
    /\ Running
    /\ cpc = "command"
    /\ ChildExit("command")
    /\ UNCHANGED <<child_sigmask, child_leader, wait_status, child_diag>>
    /\ UNCHANGED <<parentVars, sigVars, ttyVars, ptyVars, chanVars, ioVars, geomVars>>

\* the writer of local input closes it; a read returns the bytes waiting
\* before it reports the end, so the end is modelled once they are consumed
LocalInputEnds ==
    /\ Running
    /\ stdin_buf = <<>>
    /\ ~stdin_eof
    /\ stdin_eof' = TRUE
    /\ UNCHANGED <<stdin_buf, in_read, in_written, out_read, out_written>>
    /\ UNCHANGED <<parentVars, sigVars, ttyVars, ptyVars, chanVars, childVars, geomVars>>

\* an unrelated process opens the slave before the child does and takes it
\* as its controlling terminal (comment at lines 264-271); later it closes it
OtherOpens ==
    /\ Running
    /\ pty_unlocked
    /\ ~slave_opened
    /\ slave_opened' = TRUE
    /\ other_holds' = TRUE
    /\ ctty' = "other"
    /\ UNCHANGED <<pty_open, pty_granted, pty_unlocked, pty_size, pty_out>>
    /\ UNCHANGED <<parentVars, sigVars, ttyVars, chanVars, ioVars, childVars, geomVars>>

OtherCloses ==
    /\ Running
    /\ other_holds
    /\ other_holds' = FALSE
    /\ UNCHANGED <<pty_open, pty_granted, pty_unlocked, pty_size, pty_out,
                   slave_opened, ctty>>
    /\ UNCHANGED <<parentVars, sigVars, ttyVars, chanVars, ioVars, childVars, geomVars>>

(* --------------------------- specification --------------------------- *)
Parent ==
    \/ Main \/ BlockSigwinch \/ InstallHandler \/ OpenMaster \/ GrantPt
    \/ UnlockPt \/ InitialSize \/ SlaveName \/ Fork \/ DisableCanonicalIo
    \/ ForwardAllIo \/ LoopTop \/ PselectReady \/ PselectInterrupted
    \/ PselectOtherSignal \/ PselectFails \/ AfterInterrupt \/ ProcessIncoming
    \/ ProcessOutgoing \/ AwaitChild \/ AwaitChildFails \/ EnableCanonicalIo
    \/ Return
    \/ IncomingWriteBlocks \/ IncomingWriteReturns
    \/ OutgoingWriteBlocks \/ OutgoingWriteReturns

Child ==
    \/ ChildCloseMaster \/ ChildSetsid \/ ChildOpenStdin \/ ChildDupStdout
    \/ ChildDupStderr \/ ChildCheckTerminal \/ ChildExec

Environment ==
    \/ CommandWrite \/ CommandEnds \/ LocalInputEnds \/ Sigwinch
    \/ ReceiveSigwinch \/ IgnoreSigwinch \/ OtherOpens \/ OtherCloses

Next == Parent \/ Child \/ Environment

Spec == Init /\ [][Next]_vars

(* One run with fairness: the parent and the child take their next step    *)
(* when they can (a system call that can return does), a pending signal    *)
(* that is not blocked is delivered, and a channel whose descriptor is     *)
(* ready again and again moves its bytes, and a write that blocked returns. *)
(* Nothing obliges the launched command, the signals, the failures of      *)
(* system calls, or the unrelated process that holds the slave.            *)
FairInit ==
    /\ Init
    /\ argv = <<"ptwrap", "cmd">>
    /\ open_fds = {0, 1, 2}
    /\ ~stdin_tty

ParentRuns ==
    \/ Main \/ BlockSigwinch \/ InstallHandler \/ OpenMaster \/ GrantPt
    \/ UnlockPt \/ InitialSize \/ SlaveName \/ Fork \/ DisableCanonicalIo
    \/ ForwardAllIo \/ LoopTop \/ PselectReady \/ PselectInterrupted
    \/ AfterInterrupt \/ ProcessIncoming \/ ProcessOutgoing \/ AwaitChild
    \/ EnableCanonicalIo \/ Return
    \/ IncomingWriteReturns \/ OutgoingWriteReturns

FairSpec ==
    /\ FairInit
    /\ [][Next]_vars
    /\ WF_vars(ParentRuns)
    /\ WF_vars(Child)
    /\ WF_vars(ReceiveSigwinch)
    /\ SF_vars(ProcessIncoming /\ incoming' # incoming)
    /\ SF_vars(ProcessOutgoing /\ outgoing' # outgoing)

(* ============================== claims ============================== *)
IsPrefix(p, q) == Len(p) <= Len(q) /\ SubSeq(q, 1, Len(p)) = p

\* the forwarding loop has ended (control is past line 227)
LoopEnded ==
    \/ pc \in {"await_child", "enable_canonical_io", "return"}
    \/ pc = "exited" /\ exit_via = "return"
    \/ pc = "exited" /\ diag = <<"cannot await child process">>

\* the parent completed: the loop ended, the child was awaited, main returned
Completed == pc = "exited" /\ exit_via = "return"

\* C1: when main returns, the exit status is the command's exit code if it
\* exited, its terminating signal plus the high bit 0x80 (= signal + 128
\* for the signals 1..127) if it was killed, and EXIT_FAILURE otherwise.
C1_ExitStatus ==
    (pc \in {"enable_canonical_io", "return"} \/ Completed) =>
        /\ wait_status.kind = "exited" => exit_status = wait_status.val
        /\ wait_status.kind = "signaled" => exit_status = wait_status.val + 128
        /\ wait_status.kind \notin {"exited", "signaled"} => exit_status = EXIT_FAILURE

C1_Witness ==
    /\ Completed
    /\ wait_status = Signaled(9)
    /\ exit_status = 137

\* C2: when the forwarding loop has ended, the bytes written to local output
\* are exactly the bytes read from the pty master, in the same order, and
\* the outbound channel holds nothing more to write.
C2_OutputComplete ==
    LoopEnded => out_written = out_read /\ outgoing.state = INACTIVE

\* the loop has ended after forwarding the message the child wrote to the
\* slave in the moment it exited
C2_Witness ==
    /\ LoopEnded
    /\ cpc \in {"zombie", "reaped"}
    /\ Len(out_written) = 1
    /\ out_written[1] = 0

\* C3: at every point the bytes written to the pty master are a prefix of
\* the bytes read from local input.
C3_InputPrefix == IsPrefix(in_written, in_read)

\* two bytes were read in one chunk and the first one written by a partial write
C3_Witness ==
    /\ in_read = <<1, 2>>
    /\ in_written = <<1>>
    /\ incoming.state = WRITING
    /\ incoming.buffer_position = 1
    /\ incoming.buffer_length = 2

\* C4 as stated: in every completed run on a terminal the attributes at exit
\* are those before the start and the restore was performed exactly once.
C4_AsStated ==
    (Completed /\ stdin_tty) => termios = termios0 /\ restores = 1

\* C4 amended: in a completed run the restore is attempted exactly once if
\* raw mode had been applied, with the attributes captured before raw mode,
\* and the attributes at exit equal them when that call succeeded; it is
\* not attempted, and the attributes are unchanged, if raw mode was not applied.
C4_Restore ==
    /\ restores <= 1
    /\ restores = 1 => noncanon /\ pc \in {"return", "exited"}
    /\ Completed =>
          /\ restores = (IF noncanon THEN 1 ELSE 0)
          /\ noncanon => original_termios = termios0
          /\ (noncanon /\ restore_ok) => termios = termios0
          /\ ~noncanon => termios = termios0

C4_Witness ==
    /\ Completed
    /\ noncanon
    /\ restore_ok
    /\ restores = 1
    /\ termios = Cooked

\* C5: whenever the parent has exited after raw mode was applied, the
\* restore of the terminal attributes was performed before the exit.
C5_RestoredOnEveryExit ==
    (pc = "exited" /\ noncanon) => restores >= 1

\* the operand is missing: no argument, or only a single "--"
OperandMissing ==
    \/ Len(argv) = 1
    \/ Len(argv) = 2 /\ argv[2] = "--"

\* C6: when the operand is missing the tool goes from the argument check
\* straight to exit with the operand-missing message and a non-zero status;
\* no pty is opened, no handler installed, no signal blocked, no child created.
C6_OperandMissing ==
    OperandMissing =>
        /\ pc \in {"main", "exited"}
        /\ ~pty_open /\ master_fd = Uninit
        /\ sa_handler = "SIG_DFL" /\ sigmask = {}
        /\ child_pid = NoPid /\ cpc = "none"
        /\ pc = "exited" =>
              /\ diag = <<"operand missing">>
              /\ exit_status # 0
              /\ exit_status = EXIT_FAILURE

C6_Witness ==
    /\ pc = "exited"
    /\ argv = <<"ptwrap", "--">>
    /\ diag = <<"operand missing">>

\* the child has opened the slave and the slave is not its controlling terminal
AcquisitionFailed == cpc = "tcgetpgrp" /\ ctty # "child"

AcquisitionMessage == "cannot become controlling process of slave pseudo-terminal"

\* C7 as stated: once the child finds that it did not acquire the slave as
\* controlling terminal, the parent eventually exits.
C7_AsStated == AcquisitionFailed ~> (pc = "exited")

\* C7 amended: the child's next step then is to exit with EXIT_FAILURE and
\* the acquisition message, without executing the command; a parent that
\* completes exits with EXIT_FAILURE; and the parent does exit once no
\* other process holds the slave open any more.
C7_AcquisitionFailure ==
    /\ [][(AcquisitionFailed /\ cpc' # cpc) =>
             /\ cpc' = "zombie"
             /\ child_end' = "failed"
             /\ child_diag' = AcquisitionMessage]_vars
    /\ []((child_diag = AcquisitionMessage /\ pc = "exited") =>
             exit_status = EXIT_FAILURE)
    /\ (child_diag = AcquisitionMessage /\ ~other_holds) ~> (pc = "exited")

C7_Witness ==
    /\ Completed
    /\ ctty = "other"
    /\ child_diag = AcquisitionMessage
    /\ wait_status = Exited(EXIT_FAILURE)
    /\ exit_status = EXIT_FAILURE
    /\ out_written = <<0>>

\* C8: the loop is left, and only then, when its test finds the outbound
\* channel Inactive: inside the loop body the outbound channel is not
\* Inactive, after the loop it is, the test at line 207 goes to the wait
\* exactly when it is not, and the step in which the inbound channel
\* becomes Inactive is followed by the outbound channel's step.
C8_LoopEndsOnOutbound ==
    /\ [](pc \in {"pselect", "eintr", "process_incoming", "process_outgoing"} =>
             outgoing.state # INACTIVE)
    /\ [](LoopEnded => outgoing.state = INACTIVE)
    /\ [][(pc = "loop" /\ pc' # "loop") =>
             IF outgoing.state = INACTIVE
             THEN pc' = "await_child"
             ELSE pc' = "pselect"]_vars
    /\ [][(incoming.state # INACTIVE /\ incoming'.state = INACTIVE) =>
             pc' = "process_outgoing" /\ outgoing'.state # INACTIVE]_vars

\* the loop has ended while the inbound channel still holds a byte to write
C8_Witness ==
    /\ pc = "await_child"
    /\ incoming.state = WRITING
    /\ in_written # in_read

\* C9 as stated: the status of a command killed by a signal is the status
\* of no normally exiting command, whatever its exit code in 0..255.
C9_AsStated ==
    (Completed /\ wait_status.kind = "signaled") =>
        \A code \in 0 .. 255 : AwaitStatus(Exited(code)) # exit_status

\* C9 amended: the status of a command killed by a signal lies in 128..255
\* and is the status of no normally exiting command with an exit code in 0..127.
C9_DisjointBelow128 ==
    (Completed /\ wait_status.kind = "signaled") =>
        /\ exit_status \in 128 .. 255
        /\ \A code \in 0 .. 127 : AwaitStatus(Exited(code)) # exit_status

C9_Witness ==
    /\ Completed
    /\ wait_status = Signaled(2)
    /\ exit_status = 130
    /\ AwaitStatus(Exited(130)) = exit_status

\* a step that applies set_terminal_size (line 104, or line 220)
Propagates ==
    \/ pc = "set_terminal_size" /\ pc' # pc
    \/ pc = "eintr" /\ should_set_terminal_size /\ pc' # pc

\* C10: with the local size unchanged, a propagation that follows another
\* leaves the geometry of the pty as the earlier one left it; a propagation
\* whose query and set succeed makes the geometry of the pty the local one,
\* one whose query or set fails leaves it untouched; and no propagation
\* ends the process, whatever the query and the set return.
C10_Idempotent ==
    /\ [][(Propagates /\ geom_calls >= 1) => pty_size' = pty_size]_vars
    /\ [][Propagates =>
             pty_size' = IF tiocgwinsz_ok /\ tiocswinsz_ok
                         THEN local_size
                         ELSE pty_size]_vars
    /\ [][Propagates => pc' \in {"ptsname", "loop"}]_vars

\* a second propagation has run with the local size unchanged
C10_Witness ==
    /\ geom_calls = 2
    /\ geom_ok
    /\ pc = "loop"
    /\ pty_size = <<24, 80>>

\* C11: Inactive is absorbing for each channel: a step from a state where
\* the channel is Inactive leaves the channel as it is and moves no byte
\* through it (nothing is read from its source, nothing written to its
\* destination); at the multiplexed wait an Inactive inbound channel has
\* neither of its handles registered, and once the outbound channel is
\* Inactive nothing is registered at all.
C11_InactiveAbsorbing ==
    /\ [][incoming.state = INACTIVE =>
             /\ incoming' = incoming
             /\ stdin_buf' = stdin_buf
             /\ in_read' = in_read
             /\ in_written' = in_written]_vars
    /\ [][outgoing.state = INACTIVE =>
             /\ outgoing' = outgoing
             /\ out_read' = out_read
             /\ out_written' = out_written]_vars
    /\ []((pc = "pselect" /\ incoming.state = INACTIVE) =>
             /\ STDIN_FILENO \notin read_fds
             /\ master_fd \notin write_fds)
    /\ [](outgoing.state = INACTIVE =>
             /\ pc # "pselect"
             /\ read_fds = {}
             /\ write_fds = {})

\* the loop waits with the inbound channel Inactive while local input still
\* holds a byte
C11_Witness ==
    /\ pc = "pselect"
    /\ incoming.state = INACTIVE
    /\ stdin_buf # <<>>
    /\ read_fds = {master_fd}
    /\ write_fds = {}

\* the offset and the valid length of a Writing channel
WritingInBounds(channel) ==
    channel.state = WRITING =>
        /\ 0 <= channel.buffer_position
        /\ channel.buffer_position < channel.buffer_length
        /\ channel.buffer_length <= BufSize
        /\ Len(channel.buffer) = channel.buffer_length

\* a step that changes a Writing channel (before) into after
DrainsToReading(before, after) ==
    (before.state = WRITING /\ after # before) =>
        /\ after.state \in {READING, WRITING}
        /\ after.buffer_length = before.buffer_length
        /\ after.buffer_position > before.buffer_position
        /\ after.state = READING <=> after.buffer_position = before.buffer_length

\* C12: a Writing channel has 0 <= offset < valid length <= capacity in
\* every reachable state (the assertion of line 177 holds whenever it is
\* evaluated), and a step that changes a Writing channel makes it Reading
\* exactly when the offset reaches the valid length.
C12_WritingInvariant ==
    /\ [](WritingInBounds(incoming) /\ WritingInBounds(outgoing))
    /\ [][DrainsToReading(incoming, incoming')]_vars
    /\ [][DrainsToReading(outgoing, outgoing')]_vars

\* the outbound channel has written one byte of a full buffer and waits for
\* its destination
C12_Witness ==
    /\ pc = "pselect"
    /\ outgoing.state = WRITING
    /\ outgoing.buffer_position = BufSize - 1
    /\ outgoing.buffer_length = BufSize
    /\ write_fds = {STDOUT_FILENO}

\* what set_fd_set has to register for a channel
OneInterest(channel) ==
    /\ channel.state = READING =>
          channel.from_fd \in read_fds /\ channel.to_fd \notin write_fds
    /\ channel.state = WRITING =>
          channel.to_fd \in write_fds /\ channel.from_fd \notin read_fds
    /\ channel.state = INACTIVE =>
          channel.from_fd \notin read_fds /\ channel.to_fd \notin write_fds

\* C13: at the multiplexed wait each channel that is not Inactive has
\* exactly one handle registered, the source in the read set when Reading,
\* the destination in the write set when Writing, and the two sets hold
\* nothing else.
C13_OneInterest ==
    pc = "pselect" =>
        /\ OneInterest(incoming)
        /\ OneInterest(outgoing)
        /\ read_fds \subseteq {incoming.from_fd, outgoing.from_fd}
        /\ write_fds \subseteq {incoming.to_fd, outgoing.to_fd}
        /\ Cardinality(read_fds) + Cardinality(write_fds)
              = Cardinality({c \in {"in", "out"} :
                    (IF c = "in" THEN incoming ELSE outgoing).state # INACTIVE})

\* both channels wait to write: the read set is empty
C13_Witness ==
    /\ pc = "pselect"
    /\ incoming.state = WRITING
    /\ outgoing.state = WRITING
    /\ read_fds = {}
    /\ write_fds = {master_fd, STDOUT_FILENO}

\* what the read and write steps of the engine touch
engineVars == <<incoming, outgoing, stdin_buf, in_read, in_written, out_read,
                out_written>>

\* C14: an iteration whose wait is interrupted (control goes from the wait
\* to line 219 and back to the loop test) performs no read and no write and
\* leaves both channels as they are; it leaves the flag cleared, and when
\* the flag was set it applies the local geometry to the pty in the same
\* iteration; so the flag is false at every read or write step.
C14_InterruptedIteration ==
    /\ [][(pc = "pselect" /\ pc' = "eintr") => UNCHANGED engineVars]_vars
    /\ [][pc = "eintr" =>
             /\ UNCHANGED engineVars
             /\ pc' \in {"eintr", "loop"}]_vars
    /\ [][(pc = "eintr" /\ pc' = "loop") =>
             /\ ~should_set_terminal_size'
             /\ pty_size' = IF should_set_terminal_size
                                /\ tiocgwinsz_ok /\ tiocswinsz_ok
                             THEN local_size
                             ELSE pty_size]_vars
    /\ [](pc \in {"loop", "process_incoming", "process_outgoing",
                   "write_incoming", "write_outgoing"} =>
             ~should_set_terminal_size)

\* the wait was interrupted by the resize notification while the inbound
\* channel was Writing, and the geometry of the pty is not the local one
C14_Witness ==
    /\ pc = "eintr"
    /\ should_set_terminal_size
    /\ incoming.state = WRITING
    /\ pty_size # local_size

\* a step in which receive_sigwinch runs: the pending notification is
\* taken while the handler is installed
HandlerRuns ==
    sig_pending /\ ~sig_pending' /\ sa_handler = "receive_sigwinch"

\* C15: once the handler is installed the notification is blocked in the
\* mask of the process and not in the mask of the wait; the handler runs
\* only while the parent is inside the wait, and all it changes is the flag.
C15_HandlerOnlyInWait ==
    /\ [](sa_handler = "receive_sigwinch" =>
             /\ "SIGWINCH" \in sigmask
             /\ "SIGWINCH" \notin mask_for_select)
    /\ [][HandlerRuns =>
             /\ pc = "pselect"
             /\ should_set_terminal_size'
             /\ UNCHANGED <<parentVars, ttyVars, ptyVars, chanVars, ioVars,
                            childVars, geomVars>>
             /\ UNCHANGED <<sigmask, mask_for_select, sa_handler>>]_vars
    /\ [][should_set_terminal_size' # should_set_terminal_size =>
             \/ pc = "pselect" /\ pc' = pc
             \/ pc = "eintr" /\ pc' = "loop"]_vars

\* the notification is pending, and held back, during a read or write step
C15_Witness ==
    /\ pc = "process_incoming"
    /\ sig_pending
    /\ sa_handler = "receive_sigwinch"
    /\ ~should_set_terminal_size
    /\ incoming.state = WRITING

\* the write step applied to a Writing channel, for every result of write
WriteStep(channel) ==
    channel.state = WRITING =>
        /\ AfterWrite(channel, -1) = channel
        /\ \A size \in 0 .. Len(Offered(channel)) :
              LET after == AfterWrite(channel, size)
              IN  /\ after.buffer_position = channel.buffer_position + size
                  /\ after.buffer = channel.buffer
                  /\ after.buffer_length = channel.buffer_length
                  /\ after.state \in {READING, WRITING}

\* a step moves to the destination exactly the bytes of the buffer that
\* the offset passes, and changes nothing of the channel if it moves none
Advances(before, after, written, written2) ==
    before.state = WRITING =>
        /\ written2 = written \o SubSeq(before.buffer, before.buffer_position + 1,
                                         after.buffer_position)
        /\ written2 = written => after = before

\* C16: a failed write leaves a Writing channel as it is (state, offset,
\* valid length, buffer), and the process goes on; a write of size bytes
\* advances the offset by size, and these are the bytes that reach the
\* destination.
C16_FailedWrite ==
    /\ [](WriteStep(incoming) /\ WriteStep(outgoing))
    /\ [][Advances(incoming, incoming', in_written, in_written')]_vars
    /\ [][Advances(outgoing, outgoing', out_written, out_written')]_vars
    /\ [][(pc = "process_incoming" \/ pc = "process_outgoing") =>
             pc' # "exited"]_vars

\* the write step of the inbound channel has run on a ready master and has
\* written nothing: the channel is as before
C16_Witness ==
    /\ pc = "process_outgoing"
    /\ master_fd \in write_fds
    /\ incoming.state = WRITING
    /\ incoming.buffer_position = 0
    /\ incoming.buffer_length = 1
    /\ in_written = <<>>

\* the steps of the child before the command runs, in the order of lines
\* 316-319, and the steps that can follow each
ChildOrder ==
    { <<"none", "close_master">>, <<"close_master", "setsid">>,
      <<"setsid", "open_stdin">>, <<"open_stdin", "dup_stdout">>,
      <<"dup_stdout", "dup_stderr">>, <<"dup_stderr", "tcgetpgrp">>,
      <<"tcgetpgrp", "execvp">>, <<"execvp", "command">> }

SetupSteps ==
    {"close_master", "setsid", "open_stdin", "dup_stdout", "dup_stderr",
     "tcgetpgrp", "execvp"}

\* the child is at one of the steps after the one named
After(step) ==
    CASE step = "close_master" ->
           cpc \in {"setsid", "open_stdin", "dup_stdout", "dup_stderr",
                    "tcgetpgrp", "execvp", "command"}
      [] step = "setsid" ->
           cpc \in {"open_stdin", "dup_stdout", "dup_stderr", "tcgetpgrp",
                    "execvp", "command"}
      [] step = "open_stdin" ->
           cpc \in {"dup_stdout", "dup_stderr", "tcgetpgrp", "execvp", "command"}
      [] step = "dup_stdout" ->
           cpc \in {"dup_stderr", "tcgetpgrp", "execvp", "command"}
      [] step = "dup_stderr" -> cpc \in {"tcgetpgrp", "execvp", "command"}
      [] step = "tcgetpgrp" -> cpc \in {"execvp", "command"}

\* C17 as stated: the child is past a step only if that step succeeded,
\* the close of the master included.
C17_AsStated ==
    /\ After("close_master") => cfd[master_fd] = "closed"
    /\ After("setsid") => child_leader
    /\ After("open_stdin") => cfd[STDIN_FILENO] = "slave"
    /\ After("dup_stdout") => cfd[STDOUT_FILENO] = "slave"
    /\ After("dup_stderr") => cfd[STDERR_FILENO] = "slave"
    /\ After("tcgetpgrp") => ctty = "child"

\* C17 amended: the child takes its steps in the order close master, new
\* session, stdin, stdout, stderr on the slave, check of the controlling
\* terminal, exec; it is past a step other than the close only if that step
\* succeeded, and otherwise it has terminated, from a setup step always
\* with a failure status; the result of the close is not looked at.
C17_ChildSetup ==
    /\ [][cpc' # cpc =>
             \/ <<cpc, cpc'>> \in ChildOrder
             \/ cpc \in SetupSteps \ {"close_master"} /\ cpc' = "zombie"
                   /\ child_end' = "failed"
             \/ cpc = "command" /\ cpc' = "zombie" /\ child_end' = "command"
             \/ cpc = "zombie" /\ cpc' = "reaped"]_vars
    /\ [](After("setsid") => child_leader)
    /\ [](After("open_stdin") => cfd[STDIN_FILENO] = "slave")
    /\ [](After("dup_stdout") => cfd[STDOUT_FILENO] = "slave")
    /\ [](After("dup_stderr") => cfd[STDERR_FILENO] = "slave")
    /\ [](After("tcgetpgrp") => ctty = "child")
    /\ []((child_end = "failed" /\ cpc = "reaped") =>
             wait_status = Exited(EXIT_FAILURE))

\* the command runs in a child whose close of the master failed
C17_Witness ==
    /\ cpc = "command"
    /\ cfd[master_fd] = "master"
    /\ child_leader
    /\ ctty = "child"
    /\ \A fd \in {STDIN_FILENO, STDOUT_FILENO, STDERR_FILENO} : cfd[fd] = "slave"

\* the parent is inside a system call that does not return until something
\* outside the parent happens
Suspended ==
    \/ pc = "pselect" /\ ~interrupted
          /\ {fd \in read_fds : Readable(fd)} \cup {fd \in write_fds : Writable(fd)} = {}
    \/ pc = "await_child" /\ cpc # "zombie"
    \/ pc \in {"write_incoming", "write_outgoing"}

\* C18: the parent is suspended only in the multiplexed wait and in the
\* wait for the child, never in a read or write step; in particular never
\* in a write of one channel while the other channel has bytes to move.
C18_NeverBlocksInStep ==
    Suspended => pc \in {"pselect", "await_child"}

\* the place of each point of the parent in the order of main (lines
\* 282-313); the points of the forwarding loop share one place
Place(at) ==
    CASE at = "main" -> 0
      [] at = "sigprocmask" -> 1
      [] at = "sigaction" -> 2
      [] at = "posix_openpt" -> 3
      [] at = "grantpt" -> 4
      [] at = "unlockpt" -> 5
      [] at = "set_terminal_size" -> 6
      [] at = "ptsname" -> 7
      [] at = "fork" -> 8
      [] at = "disable_canonical_io" -> 9
      [] at = "forward_all_io" -> 10
      [] at \in {"loop", "pselect", "eintr", "process_incoming", "process_outgoing",
                 "write_incoming", "write_outgoing"} -> 11
      [] at = "await_child" -> 12
      [] at = "enable_canonical_io" -> 13
      [] at = "return" -> 14
      [] at = "exited" -> 15

\* C19: the parent moves forward through main; a child exists only after
\* the master was opened above the standard streams, granted, unlocked and
\* its slave named, and a parent that exits before the fork exits with
\* EXIT_FAILURE and without a child; the attributes are captured and raw
\* mode is applied only at line 308, before the channels exist and before
\* any byte is moved; the child is reaped only after the loop has ended;
\* the restore happens only at line 312, after the child was reaped, and
\* only if raw mode had been applied.
C19_Lifecycle ==
    /\ [][Place(pc') >= Place(pc)]_vars
    /\ [](pty_granted => pty_open /\ master_fd > STDERR_FILENO)
    /\ [](pty_unlocked => pty_granted)
    /\ [](slave_name # "" => pty_unlocked)
    /\ []((cpc # "none" \/ child_pid # NoPid) =>
             /\ slave_name # ""
             /\ Place(pc) >= Place("disable_canonical_io"))
    /\ [](Place(pc) <= Place("fork") => cpc = "none" /\ child_pid = NoPid)
    /\ []((pc = "exited" /\ cpc = "none") =>
             exit_status = EXIT_FAILURE /\ child_pid = NoPid)
    /\ [][(noncanon' # noncanon \/ original_termios' # original_termios) =>
             /\ pc = "disable_canonical_io"
             /\ incoming.state = "UNSET" /\ outgoing.state = "UNSET"
             /\ in_read = <<>> /\ out_read = <<>>]_vars
    /\ []((Place(pc) = Place("loop") /\ noncanon) =>
             termios = RawOf(original_termios))
    /\ [](cpc = "reaped" =>
             /\ outgoing.state = INACTIVE
             /\ Place(pc) > Place("await_child"))
    /\ [][restores' # restores =>
             /\ pc = "enable_canonical_io"
             /\ cpc = "reaped"
             /\ noncanon]_vars
    /\ [](restores >= 1 => cpc = "reaped" /\ noncanon)

\* main is about to return after all the steps: raw mode was applied, bytes
\* were forwarded, the child was reaped, the attributes were restored
C19_Witness ==
    /\ pc = "return"
    /\ cpc = "reaped"
    /\ noncanon
    /\ restores = 1
    /\ out_written # <<>>
    /\ in_written # <<>>

\* C20: the child starts with the signal mask the parent had at the fork,
\* in which SIGWINCH is blocked, and no step of the child changes its mask:
\* at execvp and in the launched command SIGWINCH is blocked.
C20_BlockedInCommand ==
    /\ [](cpc # "none" => child_sigmask = sigmask)
    /\ [](cpc \in {"execvp", "command"} => "SIGWINCH" \in child_sigmask)
    /\ [][child_sigmask' # child_sigmask => pc = "fork" /\ cpc = "none"]_vars

\* the launched command runs with SIGWINCH blocked while a notification
\* for the parent is pending
C20_Witness ==
    /\ cpc = "command"
    /\ "SIGWINCH" \in child_sigmask
    /\ sig_pending

====
